---- MODULE Spec2Model ----
(***************************************************************************)
(* Model of download_app.py: the Downloader class.  One coordinator (the   *)
(* main thread running download / _multi_threaded_download /               *)
(* _single_threaded_download) and one worker thread per segment running    *)
(* _download_segment.  File contents are sequences of byte offsets of the  *)
(* remote resource, so that order, duplication and truncation are visible. *)
(* One chunk of iter_content carries one unit of data.                     *)
(***************************************************************************)
EXTENDS Integers, Sequences, FiniteSets, TLC

\* Bounds of the model.
MaxSize == 3
MaxThreads == 2
MaxRetries == 2
MaxPlanSize == 12
MaxPlanThreads == 10

VARIABLES
    server,           \* the remote side: [size, length, ranges]
    num_threads,      \* self.num_threads
    retries,          \* self.retries
    total_size,       \* self.total_size
    total_downloaded, \* self.total_downloaded
    stop_event,       \* self.stop_event
    error_occurred,   \* self.error_occurred: <<>> is None, <<i>> names segment i
    segments,         \* the local list segments of _multi_threaded_download
    cpc,              \* position of the main thread
    spawned,          \* number of threads started so far
    mi,               \* loop index i of _merge_files
    outcome,          \* what the main thread reported last
    wpc,              \* position of each worker thread
    resume_pos,       \* local resume_pos of each worker
    attempt,          \* local attempt of each worker
    rpos,             \* bytes each worker took from its current response
    part,             \* contents of <output_path>.part<i>
    part_exists,      \* whether <output_path>.part<i> is on disk
    dest,             \* contents of output_path
    dest_exists,      \* whether output_path is on disk
    single_part,      \* contents of <output_path>.part
    single_exists,    \* whether <output_path>.part is on disk
    requests,         \* history: GET requests issued by each worker
    written,          \* history: bytes each worker passed to f.write
    part_init,        \* history: the part files as the run found them
    merge_input,      \* history: the part files as _merge_files found them
    overtaken,        \* history: a thread returned before one of lower index did
    main_resume_pos,  \* local resume_pos of _single_threaded_download
    main_rpos,        \* bytes _single_threaded_download took from its response
    dest_opened,      \* history: output_path was opened for writing or renamed onto
    delay,            \* what each worker slept (line 201) before its current attempt
    late_requests,    \* GET requests each running worker has issued with stop_event set
    late_writes,      \* chunks each running worker has written with stop_event set
    merge_found,      \* history: whether _merge_files found each part file on disk
    main_requests,    \* history: GET requests issued by _single_threaded_download
    single_init       \* history: <output_path>.part as the run found it

vars == <<server, num_threads, retries, total_size, total_downloaded, stop_event,
          error_occurred, segments, cpc, spawned, mi, outcome, wpc, resume_pos,
          attempt, rpos, part, part_exists, dest, dest_exists, single_part,
          single_exists, requests, written, part_init, merge_input, dest_opened, overtaken,
          main_resume_pos, main_rpos, delay, late_requests, late_writes,
          merge_found, main_requests, single_init>>

envVars == <<server, num_threads, retries, part_init, single_init>>
lateVars == <<late_requests, late_writes>>
mergeVars == <<merge_input, merge_found>>
workerVars == <<wpc, resume_pos, attempt, delay, lateVars, rpos, requests, written, overtaken>>
destVars == <<dest, dest_exists, dest_opened>>
singleVars == <<single_part, single_exists, main_resume_pos, main_rpos, main_requests>>

----------------------------------------------------------------------------
\* Helpers

Threads == 0 .. (num_threads - 1)

\* The bytes lo..hi of the resource, in order (empty when hi < lo).
Bytes(lo, hi) == [k \in 1 .. (hi - lo + 1) |-> lo + k - 1]

RECURSIVE SumOver(_, _)
SumOver(f, S) == IF S = {} THEN 0
                 ELSE LET x == CHOOSE y \in S : TRUE
                      IN  f[x] + SumOver(f, S \ {x})

RECURSIVE ConcatUpTo(_, _)
\* f[0] \o f[1] \o ... \o f[n-1]
ConcatUpTo(f, n) == IF n = 0 THEN <<>> ELSE ConcatUpTo(f, n - 1) \o f[n - 1]

\* Segment planning: lines 127-132.
SegStart(T, N, i) == i * (T \div N)
\* Mutant of SegEnd: the last segment gets no remainder.
SegEndNoRemainder(T, N, i) == SegStart(T, N, i) + (T \div N) - 1

SegEnd(T, N, i) == IF i < N - 1 THEN SegStart(T, N, i) + (T \div N) - 1 ELSE T - 1
PlanSegments(T, N) == [i \in 0 .. (N - 1) |->
                          [start |-> SegStart(T, N, i), end |-> SegEnd(T, N, i)]]

SegLen(s) == s.end - s.start + 1

\* What os.path.getsize reports for a part file, 0 when it is absent.
OnDisk(i) == IF part_exists[i] THEN Len(part[i]) ELSE 0

----------------------------------------------------------------------------
\* The state after Downloader.__init__ (lines 40-49), with the files a previous
\* run may have left: each part file absent or holding a non-empty prefix of
\* its segment.

Multi(srv) == srv.length /\ srv.ranges

PrefixFiles(T, N) ==
    [i \in 0 .. (N - 1) |->
        LET s == PlanSegments(T, N)[i]
        IN  {[exists |-> FALSE, data |-> <<>>]} \cup
            {[exists |-> TRUE, data |-> Bytes(s.start, s.start + n - 1)] :
                n \in 1 .. SegLen(s)}]

Init ==
    /\ server \in [size : 1 .. MaxSize, length : BOOLEAN, ranges : BOOLEAN]
    /\ num_threads \in 1 .. MaxThreads
    /\ retries \in 0 .. MaxRetries
    /\ total_size = 0
    /\ total_downloaded = 0
    /\ stop_event = FALSE
    /\ error_occurred = <<>>
    /\ segments = <<>>
    /\ cpc = "probe"
    /\ spawned = 0
    /\ mi = 0
    /\ outcome = "none"
    /\ wpc = [i \in Threads |-> "idle"]
    /\ resume_pos = [i \in Threads |-> 0]
    /\ attempt = [i \in Threads |-> 0]
    /\ rpos = [i \in Threads |-> 0]
    /\ \E files \in [Threads -> UNION {PrefixFiles(server.size, num_threads)[i] : i \in Threads}] :
          /\ \A i \in Threads :
                IF Multi(server)
                THEN files[i] \in PrefixFiles(server.size, num_threads)[i]
                ELSE files[i] = [exists |-> FALSE, data |-> <<>>]
          /\ part = [i \in Threads |-> files[i].data]
          /\ part_exists = [i \in Threads |-> files[i].exists]
    /\ IF Multi(server)
       THEN single_part = <<>> /\ single_exists = FALSE
       ELSE \E n \in 0 .. server.size :
               /\ single_part = Bytes(0, n - 1)
               /\ single_exists = (n > 0)
    /\ dest = <<>>
    /\ dest_exists = FALSE
    /\ dest_opened = FALSE
    /\ requests = [i \in Threads |-> 0]
    /\ written = [i \in Threads |-> 0]
    /\ part_init = part
    /\ merge_input = [i \in Threads |-> <<>>]
    /\ overtaken = FALSE
    /\ main_resume_pos = 0
    /\ main_rpos = 0
    /\ delay = [i \in Threads |-> 0]
    /\ late_requests = [i \in Threads |-> 0]
    /\ late_writes = [i \in Threads |-> 0]
    /\ merge_found = [i \in Threads |-> FALSE]
    /\ main_requests = 0
    /\ single_init = single_part

----------------------------------------------------------------------------
\* download(): the probe and the choice of strategy, lines 51-68.

\* Mutant of ProbeFail: the return of line 58 is missing, and the download
\* goes on after the message.
ProbeFailNoReturn ==
    /\ cpc = "probe"
    /\ cpc' = "single"
    /\ outcome' = "ConnectError"
    /\ UNCHANGED <<envVars, workerVars, destVars, singleVars, total_size,
                   total_downloaded, stop_event, error_occurred, segments,
                   spawned, mi, part, part_exists, mergeVars>>

\* Lines 53-58: the HEAD request raises a RequestException.
ProbeFail ==
    /\ cpc = "probe"
    /\ cpc' = "done"
    /\ outcome' = "ConnectError"
    /\ UNCHANGED <<envVars, workerVars, destVars, singleVars, total_size,
                   total_downloaded, stop_event, error_occurred, segments,
                   spawned, mi, part, part_exists, mergeVars>>

\* Mutant of UseSegments: the total size is not looked at.
UseSegmentsAnySize(size, accept_ranges) == accept_ranges

\* Line 63: the test that chooses between the two strategies.
UseSegments(size, accept_ranges) == size # 0 /\ accept_ranges

\* Lines 53-68 with a HEAD request that succeeds.
ProbeOk ==
    /\ cpc = "probe"
    /\ total_size' = IF server.length THEN server.size ELSE 0
    /\ IF UseSegments(total_size', server.ranges)
       THEN /\ segments' = PlanSegments(total_size', num_threads)
            /\ cpc' = "spawn"
       ELSE /\ segments' = segments
            /\ cpc' = "single"
    /\ UNCHANGED <<envVars, workerVars, destVars, singleVars, total_downloaded,
                   stop_event, error_occurred, spawned, mi, outcome, part,
                   part_exists, mergeVars>>

----------------------------------------------------------------------------
\* _download_segment, lines 166-205.

\* The ways a thread ends: is_alive() is false in each.
Dead == {"complete", "resumed", "stopped", "failed", "exhausted", "crashed"}
\* Mutant of AllDead: the loop of line 144 is `while True` and the wait
\* never ends.
NeverDead == FALSE

\* Mutant of AllDead: the wait ends as soon as one thread has ended.
SomeDead == \E i \in Threads : wpc[i] \in Dead

\* Lines 144-149: no thread is alive and every join has returned.
AllDead == \A i \in Threads : wpc[i] \in Dead

CurrentStart(i) == segments[i].start + resume_pos[i]

\* The thread function returns (or dies): its locals go with its frame.
Return(i, how) ==
    /\ wpc' = [wpc EXCEPT ![i] = how]
    /\ resume_pos' = [resume_pos EXCEPT ![i] = 0]
    /\ attempt' = [attempt EXCEPT ![i] = 0]
    /\ delay' = [delay EXCEPT ![i] = 0]
    /\ rpos' = [rpos EXCEPT ![i] = 0]
    /\ late_requests' = [late_requests EXCEPT ![i] = 0]
    /\ late_writes' = [late_writes EXCEPT ![i] = 0]
    /\ overtaken' = (overtaken \/ \E j \in 0 .. (i - 1) : wpc[j] \notin Dead)

\* Line 201: the seconds slept after failed attempt k.
Backoff(k) == 2 ^ k

\* Line 187: a GET request goes out.
Requested(i) == requests' = [requests EXCEPT ![i] = @ + 1]

\* Line 204, under the lock.
RecordError(i) == error_occurred' = <<i>>

\* The except clause, lines 199-205: sleep and go round again, or record the
\* failure and return.
Handler(i) ==
    IF attempt[i] < retries - 1
    THEN /\ delay' = [delay EXCEPT ![i] = Backoff(attempt[i])]
         /\ attempt' = [attempt EXCEPT ![i] = @ + 1]
         /\ rpos' = [rpos EXCEPT ![i] = 0]
         /\ wpc' = [wpc EXCEPT ![i] = "attempt"]
         /\ late_requests' = [late_requests EXCEPT ![i] =
                                  IF stop_event /\ wpc[i] = "get" THEN @ + 1 ELSE @]
         /\ UNCHANGED <<error_occurred, resume_pos, overtaken, late_writes>>
    ELSE /\ RecordError(i)
         /\ Return(i, "failed")

\* Mutant of ResumeDone: a part file of exactly the segment's length does
\* not count as complete.
ResumeDoneStrict(i, rp) == rp > SegLen(segments[i])

\* Line 176.
ResumeDone(i, rp) == rp >= SegLen(segments[i])

\* Lines 168-181.
SegmentStart(i) ==
    /\ wpc[i] = "init"
    /\ LET rp == OnDisk(i)
       IN  /\ total_downloaded' = total_downloaded + rp
           /\ IF ResumeDone(i, rp)
              THEN Return(i, "resumed")
              ELSE /\ resume_pos' = [resume_pos EXCEPT ![i] = rp]
                   /\ wpc' = [wpc EXCEPT ![i] = "attempt"]
                   /\ UNCHANGED <<attempt, delay, lateVars, rpos, overtaken>>
    /\ UNCHANGED <<envVars, destVars, singleVars, total_size, stop_event,
                   error_occurred, segments, cpc, spawned, mi, outcome,
                   part, part_exists, requests, written, mergeVars>>

\* Lines 183-185: the head of the for loop and the check of stop_event.
SegmentAttempt(i) ==
    /\ wpc[i] = "attempt"
    /\ IF attempt[i] >= retries THEN Return(i, "exhausted")
       ELSE IF stop_event THEN Return(i, "stopped")
       ELSE /\ wpc' = [wpc EXCEPT ![i] = "get"]
            /\ UNCHANGED <<resume_pos, attempt, delay, lateVars, rpos, overtaken>>
    /\ UNCHANGED <<envVars, destVars, singleVars, total_size, total_downloaded,
                   stop_event, error_occurred, segments, cpc, spawned, mi, outcome,
                   part, part_exists, requests, written, mergeVars>>

\* Line 190: open(part_file, mode), with the mode line 181 fixed before the
\* loop: 'ab' keeps what is there, 'wb' truncates.
OpenPart(i) ==
    /\ part' = [part EXCEPT ![i] = IF resume_pos[i] > 0 /\ part_exists[i] THEN @ ELSE <<>>]
    /\ part_exists' = [part_exists EXCEPT ![i] = TRUE]

\* Lines 187-190: the request answers with a success status and the part
\* file is opened.
SegmentGetOk(i) ==
    /\ wpc[i] = "get"
    /\ Requested(i)
    /\ late_requests' = [late_requests EXCEPT ![i] = IF stop_event THEN @ + 1 ELSE @]
    /\ OpenPart(i)
    /\ wpc' = [wpc EXCEPT ![i] = "iter"]
    /\ UNCHANGED <<envVars, destVars, singleVars, total_size, total_downloaded,
                   stop_event, error_occurred, segments, cpc, spawned, mi, outcome,
                   resume_pos, attempt, delay, late_writes, rpos, written, mergeVars, overtaken>>

\* Lines 187-188 raise a RequestException.
SegmentGetFail(i) ==
    /\ wpc[i] = "get"
    /\ Requested(i)
    /\ Handler(i)
    /\ UNCHANGED <<envVars, destVars, singleVars, total_size, total_downloaded,
                   stop_event, segments, cpc, spawned, mi, outcome,
                   part, part_exists, written, mergeVars>>

\* Mutant of SegmentChunk: lines 192-193 are missing, and every chunk that
\* arrives is written.
SegmentChunkNoCheck(i) ==
    /\ wpc[i] = "iter"
    /\ CurrentStart(i) + rpos[i] <= segments[i].end
    /\ wpc' = [wpc EXCEPT ![i] = "write"]
    /\ UNCHANGED <<envVars, destVars, singleVars, total_size, total_downloaded,
                   stop_event, error_occurred, segments, cpc, spawned, mi, outcome,
                   part, part_exists, requests, written, mergeVars, resume_pos,
                   attempt, delay, lateVars, rpos, overtaken>>

\* Lines 191-193: iter_content yields the next chunk; stop_event is checked.
SegmentChunk(i) ==
    /\ wpc[i] = "iter"
    /\ CurrentStart(i) + rpos[i] <= segments[i].end
    /\ IF stop_event THEN Return(i, "stopped")
       ELSE /\ wpc' = [wpc EXCEPT ![i] = "write"]
            /\ UNCHANGED <<resume_pos, attempt, delay, lateVars, rpos, overtaken>>
    /\ UNCHANGED <<envVars, destVars, singleVars, total_size, total_downloaded,
                   stop_event, error_occurred, segments, cpc, spawned, mi, outcome,
                   part, part_exists, requests, written, mergeVars>>

\* Lines 191, 198: the body ends (after the whole range or before) and the
\* loop is left by break.
SegmentBodyEnd(i) ==
    /\ wpc[i] = "iter"
    /\ Return(i, "complete")
    /\ UNCHANGED <<envVars, destVars, singleVars, total_size, total_downloaded,
                   stop_event, error_occurred, segments, cpc, spawned, mi, outcome,
                   part, part_exists, requests, written, mergeVars>>

\* Line 191 raises a RequestException: the body breaks off before its end.
SegmentBodyFail(i) ==
    /\ wpc[i] = "iter"
    /\ CurrentStart(i) + rpos[i] <= segments[i].end
    /\ Handler(i)
    /\ UNCHANGED <<envVars, destVars, singleVars, total_size, total_downloaded,
                   stop_event, segments, cpc, spawned, mi, outcome,
                   part, part_exists, requests, written, mergeVars>>

\* Line 195.
SegmentWrite(i) ==
    /\ wpc[i] = "write"
    /\ part' = [part EXCEPT ![i] = Append(@, CurrentStart(i) + rpos[i])]
    /\ written' = [written EXCEPT ![i] = @ + 1]
    /\ late_writes' = [late_writes EXCEPT ![i] = IF stop_event THEN @ + 1 ELSE @]
    /\ wpc' = [wpc EXCEPT ![i] = "count"]
    /\ UNCHANGED <<envVars, destVars, singleVars, total_size, total_downloaded,
                   stop_event, error_occurred, segments, cpc, spawned, mi, outcome,
                   resume_pos, attempt, delay, late_requests, rpos, part_exists, requests, mergeVars,
                   overtaken>>

\* Lines 196-197, under the lock.
SegmentCount(i) ==
    /\ wpc[i] = "count"
    /\ total_downloaded' = total_downloaded + 1
    /\ rpos' = [rpos EXCEPT ![i] = @ + 1]
    /\ wpc' = [wpc EXCEPT ![i] = "iter"]
    /\ UNCHANGED <<envVars, destVars, singleVars, total_size, stop_event,
                   error_occurred, segments, cpc, spawned, mi, outcome, resume_pos,
                   attempt, delay, lateVars, part, part_exists, requests, written, mergeVars,
                   overtaken>>

\* Line 190 or line 195 raises an OSError: no except clause catches it and
\* the thread ends.
SegmentOSError(i) ==
    /\ wpc[i] \in {"get", "write"}
    /\ IF wpc[i] = "get" THEN Requested(i) ELSE UNCHANGED requests
    /\ Return(i, "crashed")
    /\ UNCHANGED <<envVars, destVars, singleVars, total_size, total_downloaded,
                   stop_event, error_occurred, segments, cpc, spawned, mi, outcome,
                   part, part_exists, written, mergeVars>>

----
\* _multi_threaded_download, lines 134-163.

\* Lines 138-141: the threads are started one after the other.
StartThread ==
    /\ cpc = "spawn"
    /\ wpc' = [wpc EXCEPT ![spawned] = "init"]
    /\ spawned' = spawned + 1
    /\ cpc' = IF spawned' = num_threads THEN "poll" ELSE "spawn"
    /\ UNCHANGED <<envVars, destVars, singleVars, total_size, total_downloaded,
                   stop_event, error_occurred, segments, mi, outcome, resume_pos,
                   attempt, delay, lateVars, rpos, part, part_exists, requests, written, mergeVars,
                   overtaken>>

\* Mutant of NoError: the recorded error is not looked at.
NoErrorIgnored == TRUE

\* Line 159: the test that decides between merge and the failure message.
NoError == error_occurred = <<>>

\* Lines 144-149 end with every thread dead; then lines 159-163, and line 210
\* when the merge is entered.
Joined ==
    /\ cpc = "poll"
    /\ AllDead
    /\ IF NoError
       THEN /\ cpc' = "merge"
            /\ mi' = 0
            /\ dest' = <<>>
            /\ dest_exists' = TRUE
            /\ dest_opened' = TRUE
            /\ merge_input' = [i \in Threads |-> IF part_exists[i] THEN part[i] ELSE <<>>]
            /\ merge_found' = part_exists
            /\ UNCHANGED outcome
       ELSE /\ cpc' = "done"
            /\ outcome' = "Failed"
            /\ UNCHANGED <<mi, destVars, mergeVars>>
    /\ UNCHANGED <<envVars, workerVars, singleVars, total_size, total_downloaded,
                   stop_event, error_occurred, segments, spawned, part, part_exists>>

\* Lines 151-153: KeyboardInterrupt, in the try block that handles it.
Interrupt ==
    /\ cpc = "poll"
    /\ stop_event' = TRUE
    /\ cpc' = "cancelling"
    /\ UNCHANGED <<envVars, workerVars, destVars, singleVars, total_size,
                   total_downloaded, error_occurred, segments, spawned, mi, outcome,
                   part, part_exists, mergeVars>>

\* Mutant of CancelJoined: the return of line 157 is missing, and line 159
\* follows the joins.
CancelJoinedNoReturn ==
    /\ cpc = "cancelling"
    /\ AllDead
    /\ cpc' = "poll"
    /\ UNCHANGED <<envVars, workerVars, destVars, singleVars, total_size,
                   total_downloaded, stop_event, error_occurred, segments, spawned,
                   mi, outcome, part, part_exists, mergeVars>>

\* Lines 154-157.
CancelJoined ==
    /\ cpc = "cancelling"
    /\ AllDead
    /\ cpc' = "done"
    /\ outcome' = "Cancelled"
    /\ UNCHANGED <<envVars, workerVars, destVars, singleVars, total_size,
                   total_downloaded, stop_event, error_occurred, segments, spawned,
                   mi, part, part_exists, mergeVars>>

----------------------------------------------------------------------------
\* _merge_files, lines 207-216.

\* Mutant of MergeIndex: the loop runs from the last part to the first.
MergeIndexReversed(k) == num_threads - 1 - k

\* The index the loop of line 211 visits at its k-th round.
MergeIndex(k) == k

\* Lines 211-215: part i is skipped when absent, else copied.
MergeCopy ==
    /\ cpc = "merge"
    /\ mi < num_threads
    /\ IF part_exists[MergeIndex(mi)]
       THEN /\ dest' = dest \o part[MergeIndex(mi)]
            /\ cpc' = "remove"
            /\ UNCHANGED mi
       ELSE /\ mi' = mi + 1
            /\ UNCHANGED <<dest, cpc>>
    /\ UNCHANGED <<envVars, workerVars, singleVars, dest_exists, dest_opened,
                   total_size, total_downloaded, stop_event, error_occurred,
                   segments, spawned, outcome, part, part_exists, mergeVars>>

\* Mutant of MergeRemove: line 216 is missing, and the part file stays.
MergeRemoveSkipped ==
    /\ cpc = "remove"
    /\ mi' = mi + 1
    /\ cpc' = "merge"
    /\ UNCHANGED <<envVars, workerVars, destVars, singleVars, total_size,
                   total_downloaded, stop_event, error_occurred, segments, spawned,
                   outcome, mergeVars, part, part_exists>>

\* Line 216.
MergeRemove ==
    /\ cpc = "remove"
    /\ part_exists' = [part_exists EXCEPT ![MergeIndex(mi)] = FALSE]
    /\ part' = [part EXCEPT ![MergeIndex(mi)] = <<>>]
    /\ mi' = mi + 1
    /\ cpc' = "merge"
    /\ UNCHANGED <<envVars, workerVars, destVars, singleVars, total_size,
                   total_downloaded, stop_event, error_occurred, segments, spawned,
                   outcome, mergeVars>>

\* Lines 213-214 raise an OSError (the part file is there and cannot be
\* read): nothing catches it and download() is left with the exception.
MergeOSError ==
    /\ cpc = "merge"
    /\ mi < num_threads
    /\ part_exists[MergeIndex(mi)]
    /\ cpc' = "done"
    /\ outcome' = "Crashed"
    /\ UNCHANGED <<envVars, workerVars, destVars, singleVars, total_size,
                   total_downloaded, stop_event, error_occurred, segments, spawned,
                   mi, part, part_exists, mergeVars>>

\* The loop of line 211 is over; line 161 follows.
MergeDone ==
    /\ cpc = "merge"
    /\ mi = num_threads
    /\ cpc' = "verify"
    /\ UNCHANGED <<envVars, workerVars, destVars, singleVars, total_size,
                   total_downloaded, stop_event, error_occurred, segments, spawned,
                   mi, outcome, part, part_exists, mergeVars>>

----------------------------------------------------------------------------
\* _verify_file_integrity, lines 218-229: the digest is printed, or the
\* IOError is; either way the caller goes on as after a success.

Verify ==
    /\ cpc = "verify"
    /\ cpc' = "done"
    /\ outcome' \in {"Done", "DoneNoHash"}
    /\ UNCHANGED <<envVars, workerVars, destVars, singleVars, total_size,
                   total_downloaded, stop_event, error_occurred, segments, spawned,
                   mi, part, part_exists, mergeVars>>

----------------------------------------------------------------------------
\* _single_threaded_download, lines 94-123.

\* Lines 96-103.
SingleStart ==
    /\ cpc = "single"
    /\ LET rp == IF single_exists THEN Len(single_part) ELSE 0
       IN  /\ main_resume_pos' = rp
           /\ total_downloaded' = rp
    /\ cpc' = "sget"
    /\ UNCHANGED <<envVars, workerVars, destVars, single_part, single_exists,
                   main_rpos, main_requests, total_size, stop_event, error_occurred, segments,
                   spawned, mi, outcome, part, part_exists, mergeVars>>

\* The first byte of the response body: a server that serves ranges answers
\* 'Range: bytes=<resume_pos>-' from resume_pos on, another sends the whole
\* resource.
BodyStart == IF server.ranges THEN main_resume_pos ELSE 0

\* A range that starts at or after the end of the resource is refused (416).
Satisfiable == ~(server.ranges /\ main_resume_pos > 0 /\ main_resume_pos >= server.size)

\* Lines 106-107 succeed.
SingleGetOk ==
    /\ cpc = "sget"
    /\ Satisfiable
    /\ cpc' = "sopen"
    /\ main_requests' = main_requests + 1
    /\ UNCHANGED <<envVars, workerVars, destVars, single_part, single_exists,
                   main_resume_pos, main_rpos, total_size,
                   total_downloaded, stop_event, error_occurred, segments, spawned,
                   mi, outcome, part, part_exists, mergeVars>>

\* Lines 106-107 raise a RequestException, or line 111 does as the body
\* breaks off before its end: lines 119-120.
SingleRequestException ==
    /\ \/ cpc = "sget"
       \/ cpc = "siter" /\ BodyStart + main_rpos <= server.size - 1
    /\ cpc' = "done"
    /\ outcome' = "Failed"
    /\ main_requests' = IF cpc = "sget" THEN main_requests + 1 ELSE main_requests
    /\ UNCHANGED <<envVars, workerVars, destVars, single_part, single_exists,
                   main_resume_pos, main_rpos, total_size,
                   total_downloaded, stop_event, error_occurred, segments, spawned,
                   mi, part, part_exists, mergeVars>>

\* Lines 109-110.
SingleOpen ==
    /\ cpc = "sopen"
    /\ single_part' = IF main_resume_pos > 0 /\ single_exists THEN single_part ELSE <<>>
    /\ single_exists' = TRUE
    /\ main_rpos' = 0
    /\ cpc' = "siter"
    /\ UNCHANGED <<envVars, workerVars, destVars, main_resume_pos, main_requests, total_size,
                   total_downloaded, stop_event, error_occurred, segments, spawned,
                   mi, outcome, part, part_exists, mergeVars>>

\* Lines 111-115: one chunk is written and counted.
SingleChunk ==
    /\ cpc = "siter"
    /\ BodyStart + main_rpos <= server.size - 1
    /\ single_part' = Append(single_part, BodyStart + main_rpos)
    /\ total_downloaded' = total_downloaded + 1
    /\ main_rpos' = main_rpos + 1
    /\ UNCHANGED <<envVars, workerVars, destVars, single_exists, main_resume_pos,
                   main_requests, cpc, total_size, stop_event, error_occurred, segments, spawned,
                   mi, outcome, part, part_exists, mergeVars>>

\* The body ends (after the whole resource or before); line 117.
SingleRename ==
    /\ cpc = "siter"
    /\ dest' = single_part
    /\ dest_exists' = TRUE
    /\ dest_opened' = TRUE
    /\ single_exists' = FALSE
    /\ single_part' = <<>>
    /\ cpc' = "verify"
    /\ UNCHANGED <<envVars, workerVars, main_resume_pos, main_rpos, main_requests, total_size,
                   total_downloaded, stop_event, error_occurred, segments, spawned,
                   mi, outcome, part, part_exists, mergeVars>>

\* Lines 121-123: KeyboardInterrupt inside the try block.  In single mode
\* line 118 is inside it too.
SingleInterrupt ==
    /\ \/ cpc \in {"sget", "sopen", "siter"}
       \/ cpc = "verify" /\ segments = <<>>
    /\ stop_event' = TRUE
    /\ cpc' = "done"
    /\ outcome' = "Cancelled"
    /\ UNCHANGED <<envVars, workerVars, destVars, singleVars, total_size,
                   total_downloaded, error_occurred, segments, spawned, mi, part,
                   part_exists, mergeVars>>

\* Lines 110, 113, 117 raise an OSError: the main thread leaves download()
\* with the exception.
SingleOSError ==
    /\ cpc \in {"sopen", "siter"}
    /\ cpc' = "done"
    /\ outcome' = "Crashed"
    /\ UNCHANGED <<envVars, workerVars, destVars, singleVars, total_size,
                   total_downloaded, stop_event, error_occurred, segments, spawned,
                   mi, part, part_exists, mergeVars>>

----------------------------------------------------------------------------

Next ==
    \/ ProbeFail
    \/ ProbeOk
    \/ StartThread
    \/ \E i \in Threads : SegmentStart(i)
    \/ \E i \in Threads : SegmentAttempt(i)
    \/ \E i \in Threads : SegmentGetOk(i)
    \/ \E i \in Threads : SegmentGetFail(i)
    \/ \E i \in Threads : SegmentChunk(i)
    \/ \E i \in Threads : SegmentBodyEnd(i)
    \/ \E i \in Threads : SegmentBodyFail(i)
    \/ \E i \in Threads : SegmentWrite(i)
    \/ \E i \in Threads : SegmentCount(i)
    \/ \E i \in Threads : SegmentOSError(i)
    \/ Joined
    \/ Interrupt
    \/ CancelJoined
    \/ MergeCopy
    \/ MergeRemove
    \/ MergeOSError
    \/ MergeDone
    \/ Verify
    \/ SingleStart
    \/ SingleGetOk
    \/ SingleRequestException
    \/ SingleOpen
    \/ SingleChunk
    \/ SingleRename
    \/ SingleInterrupt
    \/ SingleOSError

Spec == Init /\ [][Next]_vars

\* Fair scheduling: a thread that can take a step takes one.  The steps of
\* thread i are those of _download_segment; the steps of the calling thread
\* are those of download() and the methods it calls.  A KeyboardInterrupt
\* (Interrupt, SingleInterrupt) comes from outside and is never owed.
WorkerStep(i) ==
    \/ SegmentStart(i)
    \/ SegmentAttempt(i)
    \/ SegmentGetOk(i)
    \/ SegmentGetFail(i)
    \/ SegmentChunk(i)
    \/ SegmentBodyEnd(i)
    \/ SegmentBodyFail(i)
    \/ SegmentWrite(i)
    \/ SegmentCount(i)
    \/ SegmentOSError(i)

CoordinatorStep ==
    \/ ProbeFail
    \/ ProbeOk
    \/ StartThread
    \/ Joined
    \/ CancelJoined
    \/ MergeCopy
    \/ MergeRemove
    \/ MergeOSError
    \/ MergeDone
    \/ Verify
    \/ SingleStart
    \/ SingleGetOk
    \/ SingleRequestException
    \/ SingleOpen
    \/ SingleChunk
    \/ SingleRename
    \/ SingleOSError

FairSpec ==
    /\ Spec
    /\ WF_vars(CoordinatorStep)
    /\ \A i \in 0 .. (MaxThreads - 1) : WF_vars(i \in Threads /\ WorkerStep(i))

----------------------------------------------------------------------------
\* Segment planning on its own: lines 127-132 applied to every total size and
\* thread count within the planning bounds.

PlanInit ==
    /\ total_size \in 1 .. MaxPlanSize
    /\ num_threads \in 1 .. MaxPlanThreads
    /\ server = [size |-> total_size, length |-> TRUE, ranges |-> TRUE]
    /\ retries = 0
    /\ total_downloaded = 0
    /\ stop_event = FALSE
    /\ error_occurred = <<>>
    /\ segments = <<>>
    /\ cpc = "plan"
    /\ spawned = 0
    /\ mi = 0
    /\ outcome = "none"
    /\ wpc = [i \in Threads |-> "idle"]
    /\ resume_pos = [i \in Threads |-> 0]
    /\ attempt = [i \in Threads |-> 0]
    /\ rpos = [i \in Threads |-> 0]
    /\ part = [i \in Threads |-> <<>>]
    /\ part_exists = [i \in Threads |-> FALSE]
    /\ single_part = <<>>
    /\ single_exists = FALSE
    /\ dest = <<>>
    /\ dest_exists = FALSE
    /\ dest_opened = FALSE
    /\ requests = [i \in Threads |-> 0]
    /\ written = [i \in Threads |-> 0]
    /\ part_init = part
    /\ merge_input = [i \in Threads |-> <<>>]
    /\ overtaken = FALSE
    /\ main_resume_pos = 0
    /\ main_rpos = 0
    /\ delay = [i \in Threads |-> 0]
    /\ late_requests = [i \in Threads |-> 0]
    /\ late_writes = [i \in Threads |-> 0]
    /\ merge_found = [i \in Threads |-> FALSE]
    /\ main_requests = 0
    /\ single_init = single_part

Plan ==
    /\ cpc = "plan"
    /\ segments' = PlanSegments(total_size, num_threads)
    /\ cpc' = "planned"
    /\ UNCHANGED <<envVars, workerVars, destVars, singleVars, total_size,
                   total_downloaded, stop_event, error_occurred, spawned, mi,
                   outcome, part, part_exists, mergeVars>>

PlanNext == Plan

PlanSpec == PlanInit /\ [][PlanNext]_vars

----------------------------------------------------------------------------
\* Properties

Planned == segments # <<>>

SegBytes(s) == s.start .. s.end

\* C1: for every total size T >= 1 and every thread count N >= 1 (N > T
\* included) the plan has exactly N segments, in index order, starting at
\* byte 0 and ending at byte T-1, each starting right after the one before,
\* pairwise disjoint, with lengths that sum to T; every segment but the last
\* has length T div N and the last has length T div N + T mod N.
C1_PlanPartitions ==
    cpc = "planned" =>
        LET T == total_size
            N == num_threads
            len == [i \in 0 .. (N - 1) |-> SegLen(segments[i])]
        IN  /\ DOMAIN segments = 0 .. (N - 1)
            /\ segments[0].start = 0
            /\ segments[N - 1].end = T - 1
            /\ \A i \in 0 .. (N - 2) : segments[i + 1].start = segments[i].end + 1
            /\ \A i, j \in 0 .. (N - 1) :
                  i # j => SegBytes(segments[i]) \cap SegBytes(segments[j]) = {}
            /\ UNION {SegBytes(segments[i]) : i \in 0 .. (N - 1)} = 0 .. (T - 1)
            /\ SumOver(len, 0 .. (N - 1)) = T
            /\ \A i \in 0 .. (N - 2) : len[i] = T \div N
            /\ len[N - 1] = (T \div N) + (T % N)

\* C1 witness: a plan with more threads than bytes, and one with a remainder.
C1_Witness ==
    /\ cpc = "planned"
    /\ num_threads > total_size
    /\ total_size > 1
    /\ SegLen(segments[0]) = 0
    /\ SegLen(segments[num_threads - 1]) = total_size

Success == {"Done", "DoneNoHash"}

Merging == cpc \in {"merge", "remove", "verify"}

\* The part file of thread i holds exactly the bytes of segment i.
FullPart(i) == part_exists[i] /\ part[i] = Bytes(segments[i].start, segments[i].end)

\* C2: _merge_files starts only when every part file i holds exactly
\* end_i - start_i + 1 bytes, and the destination of a run reported as a
\* success has exactly total_size bytes.
C2_MergeOnlyWhenComplete ==
    Planned =>
        /\ (Merging \/ outcome \in Success) =>
              \A i \in Threads : Len(merge_input[i]) = SegLen(segments[i])
        /\ outcome \in Success => Len(dest) = total_size

\* C3: error_occurred, once set, is never overwritten.
C3_FirstFailureWins ==
    [][error_occurred # <<>> => error_occurred' = error_occurred]_vars

\* C4, as stated: once a thread has recorded an error, the run ends Failed
\* and leaves the destination alone.
C4_ErrorEndsFailed ==
    (Planned /\ error_occurred # <<>> /\ cpc = "done") =>
        /\ outcome = "Failed"
        /\ ~dest_opened

\* C4, amended: once a thread has recorded an error, the main thread never
\* merges or verifies and never creates or truncates the destination; the
\* error it holds is that of a thread that failed; and the run ends Failed,
\* or Cancelled when stop_event was set.
C4_ErrorNeverMerges ==
    (Planned /\ error_occurred # <<>>) =>
        /\ ~Merging
        /\ ~dest_opened /\ ~dest_exists
        /\ wpc[error_occurred[1]] = "failed"
        /\ cpc = "done" => outcome = IF stop_event THEN "Cancelled" ELSE "Failed"

\* C4 witness: the run ended Failed although another thread had its whole
\* segment on disk.
C4_Witness ==
    /\ cpc = "done"
    /\ outcome = "Failed"
    /\ error_occurred # <<>>
    /\ \E j \in Threads : wpc[j] = "complete" /\ SegLen(segments[j]) > 0 /\ FullPart(j)

\* C5: once stop_event is set the main thread only waits for the threads and
\* reports Cancelled: it is never in the merge or the verification, never
\* reports a success, and in a segmented run the destination is never opened.
C5_CancelNeverSucceeds ==
    stop_event =>
        /\ cpc \in {"cancelling", "done"}
        /\ cpc = "cancelling" => outcome = "none"
        /\ cpc = "done" => outcome = "Cancelled"
        /\ Planned => ~dest_opened

\* C5 witness: a cancelled run in which every thread had written its whole
\* segment before the interrupt.
C5_Witness ==
    /\ stop_event
    /\ outcome = "Cancelled"
    /\ Planned
    /\ \A i \in Threads : wpc[i] = "complete" /\ FullPart(i) /\ written[i] > 0

\* C6: when the run ends Cancelled or Failed, no part file was deleted and
\* none holds fewer bytes than it held at the start plus what its thread
\* wrote to it.
C6_PartsIntactOnAbort ==
    (Planned /\ cpc = "done" /\ outcome \in {"Cancelled", "Failed"}) =>
        \A i \in Threads :
            /\ Len(part_init[i]) > 0 => part_exists[i]
            /\ OnDisk(i) >= Len(part_init[i]) + written[i]

\* The run found the part file of thread i holding its whole segment.
FoundFull(i) == Len(part_init[i]) > 0 /\ Len(part_init[i]) = SegLen(segments[i])

\* C7: a thread whose part file already held its whole segment issues no
\* request and writes nothing, its part file stays as it was until the merge
\* removes it, and the run, when the other threads complete, nobody
\* interrupts and no OSError breaks the merge, ends as a success.
C7_ResumeIdempotent ==
    Planned =>
        \A i \in Threads : FoundFull(i) =>
            /\ requests[i] = 0
            /\ written[i] = 0
            /\ wpc[i] \in {"idle", "init", "resumed"}
            /\ ~dest_opened => (part_exists[i] /\ part[i] = part_init[i])
            /\ (/\ cpc = "done"
                /\ ~stop_event
                /\ outcome # "Crashed"
                /\ \A j \in Threads : wpc[j] \in {"resumed", "complete"})
               => outcome \in Success

\* C7 witness: a successful run in which one thread found its part file full
\* and another had to download.
C7_Witness ==
    /\ Planned
    /\ outcome = "Done"
    /\ \E i, j \in Threads :
          /\ FoundFull(i) /\ requests[i] = 0 /\ wpc[i] = "resumed"
          /\ requests[j] > 0 /\ wpc[j] = "complete"

\* C8: when every thread has finished with its whole segment on disk, with no
\* error recorded and no cancellation, total_downloaded equals total_size.
C8_CounterReachesTotal ==
    (/\ Planned
     /\ spawned = num_threads
     /\ AllDead
     /\ NoError
     /\ ~stop_event
     /\ ~dest_opened
     /\ \A i \in Threads : SegLen(segments[i]) > 0 => FullPart(i))
    => total_downloaded = total_size

\* C9: while the threads run, and until the merge, total_downloaded is at
\* most the number of bytes present in the part files.
C9_CounterAtMostOnDisk ==
    (Planned /\ ~dest_opened) =>
        total_downloaded <= SumOver([i \in Threads |-> OnDisk(i)], Threads)

\* C10: the destination is the concatenation of the part files in index
\* order: of parts 0..i-1 when the merge is about to visit part i, of all of
\* them when the merge is over, in whatever order the threads returned.
C10_MergeInIndexOrder ==
    Planned =>
        /\ cpc = "merge" => dest = ConcatUpTo(merge_input, mi)
        /\ cpc = "remove" => dest = ConcatUpTo(merge_input, mi + 1)
        /\ (cpc = "verify" \/ outcome \in Success) =>
              dest = ConcatUpTo(merge_input, num_threads)

\* C10 witness: a merged run of two non-empty parts whose second thread
\* returned before the first.
C10_Witness ==
    /\ Planned
    /\ outcome = "Done"
    /\ num_threads = 2
    /\ overtaken
    /\ merge_input[0] # <<>> /\ merge_input[1] # <<>>
    /\ dest = merge_input[0] \o merge_input[1]

\* What the probe reported: lines 60-61.
ProbedSize == IF server.length THEN server.size ELSE 0

\* The positions of the coordinator inside _multi_threaded_download up to the
\* end of _merge_files.
InSegmentedPath == cpc \in {"spawn", "poll", "cancelling", "merge", "remove"}

\* C11: once the probe has succeeded, the segmented path (a plan, threads,
\* part files, merge) is taken exactly when the probe reported a total size
\* greater than 0 and range support; otherwise the download runs in the one
\* calling thread on the single '.part' file: no thread is started, no
\* numbered part file is touched and the merge is never entered.  On the
\* segmented path the single '.part' file is not touched.
C11_StrategySelection ==
    (cpc # "probe" /\ outcome # "ConnectError") =>
        /\ Planned <=> (ProbedSize > 0 /\ server.ranges)
        /\ Planned =>
              /\ cpc \notin {"single", "sget", "sopen", "siter"}
              /\ main_requests = 0
              /\ single_part = single_init
        /\ ~Planned =>
              /\ ~InSegmentedPath
              /\ spawned = 0
              /\ \A i \in Threads : wpc[i] = "idle" /\ requests[i] = 0
              /\ part = part_init
              /\ mi = 0
              /\ \A i \in Threads : ~merge_found[i]

\* C11 witness: a server that serves ranges but reports no length; the
\* download ran to its end in single mode with one request.
C11_Witness ==
    /\ server.ranges /\ ~server.length
    /\ ~Planned
    /\ outcome = "Done"
    /\ main_requests = 1
    /\ Len(dest) = server.size

\* C12: when the HEAD request fails, download() returns at once: no thread
\* was started, no GET request was issued, no part file and no destination
\* was created or changed, and total_size, total_downloaded, stop_event and
\* error_occurred are as __init__ left them.
C12_ProbeFailureAborts ==
    outcome = "ConnectError" =>
        /\ cpc = "done"
        /\ ~Planned
        /\ spawned = 0
        /\ \A i \in Threads : wpc[i] = "idle" /\ requests[i] = 0 /\ written[i] = 0
        /\ main_requests = 0
        /\ part = part_init
        /\ single_part = single_init
        /\ single_exists = (single_init # <<>>)
        /\ ~dest_opened /\ ~dest_exists
        /\ total_size = 0
        /\ total_downloaded = 0
        /\ ~stop_event
        /\ error_occurred = <<>>

\* C12 witness: the probe failed with part files of an earlier run on disk.
C12_Witness ==
    /\ outcome = "ConnectError"
    /\ cpc = "done"
    /\ \E i \in Threads : part_exists[i] /\ part[i] # <<>>

\* C13: a worker sends at most `retries` requests, sleeps 2^k seconds after
\* failed attempt k before the next one, and a worker that has ended has
\* either its whole range on disk, or seen stop_event set, or left a recorded
\* error behind.
C13_RetryPolicy ==
    (Planned /\ ~dest_opened) =>
        \A i \in Threads :
            /\ requests[i] <= retries
            /\ (wpc[i] \in {"attempt", "get"} /\ attempt[i] > 0) =>
                  delay[i] = 2 ^ (attempt[i] - 1)
            /\ wpc[i] \in Dead =>
                  \/ FullPart(i) \/ SegLen(segments[i]) = 0
                  \/ wpc[i] = "stopped" /\ stop_event
                  \/ wpc[i] = "failed" /\ error_occurred # <<>>

\* C14: until the merge, each part file holds the first bytes of its
\* segment, each once and in order, never more than the segment has; and a
\* worker about to send a request, first or retried, asks for the range that
\* starts at the segment's start plus the bytes now in its part file.
C14_PartIsPrefix ==
    (Planned /\ ~dest_opened) =>
        \A i \in Threads :
            /\ part_exists[i] =>
                  /\ Len(part[i]) <= SegLen(segments[i])
                  /\ part[i] = Bytes(segments[i].start,
                                     segments[i].start + Len(part[i]) - 1)
            /\ wpc[i] = "get" => CurrentStart(i) = segments[i].start + OnDisk(i)

\* C15 as stated: once stop_event is set no worker sends a request any
\* more, each writes at most one further chunk, and a worker that returned on
\* seeing the flag recorded no error.
C15_NoRequestAfterStop ==
    \A i \in Threads :
        /\ late_requests[i] = 0
        /\ late_writes[i] <= 1
        /\ wpc[i] = "stopped" => (stop_event /\ error_occurred # <<i>>)

\* C15, amended: stop_event is looked at before each request (line 184) and
\* before each write (line 192), and may be set between the look and the
\* act.  Once it is set a worker sends at most the one request, or writes at
\* most the one chunk, whose check it had already passed, never both and
\* never a second; a worker that returned on seeing the flag recorded no
\* error.
C15_StopsWithinOneStep ==
    \A i \in Threads :
        /\ late_requests[i] + late_writes[i] <= 1
        /\ (stop_event /\ wpc[i] \in {"get", "write"}) =>
              late_requests[i] + late_writes[i] = 0
        /\ wpc[i] = "stopped" => (stop_event /\ error_occurred # <<i>>)

\* C15 witness: after the interrupt one thread has sent the request it was
\* about to send and the other has written the chunk it was about to write.
C15_Witness ==
    /\ stop_event
    /\ num_threads = 2
    /\ \E i, j \in Threads : late_requests[i] = 1 /\ late_writes[j] = 1

\* C16: the merge never goes past a part file that is missing for a segment
\* that has bytes: it stops there, and the run does not reach verification
\* or a successful outcome.
C16_MergeFailsOnMissingPart ==
    (Planned /\ dest_opened) =>
        \A i \in Threads :
            (SegLen(segments[i]) > 0 /\ ~merge_found[i]) =>
                /\ mi <= i
                /\ cpc # "verify"
                /\ outcome \notin Success

\* C17: in every step taken while the merge or the verification runs, or
\* after them, every thread was started and has ended, no part file grows,
\* and `written` and total_downloaded stay as they are; the verification is
\* entered only with the merge loop at its end.
C17_PhasesInOrder ==
    [][(Planned' /\ (Merging' \/ dest_opened')) =>
          /\ spawned' = num_threads
          /\ \A i \in Threads : wpc'[i] \in Dead
          /\ (cpc' = "verify" \/ outcome' \in Success) => mi' = num_threads
          /\ (Merging \/ dest_opened) =>
                /\ written' = written
                /\ total_downloaded' = total_downloaded
                /\ \A i \in Threads : Len(part'[i]) <= Len(part[i])]_vars

\* C17 witness: the verification is reached after two threads each wrote
\* to their part file.
C17_Witness ==
    /\ Planned
    /\ cpc = "verify"
    /\ num_threads = 2
    /\ \A i \in Threads : written[i] > 0 /\ wpc[i] \in Dead
    /\ mi = 2

\* C18: under fair scheduling every run comes to rest: download() has
\* returned with an outcome, every thread that the segmented path planned
\* has ended, and the outcome, once given, never changes.
C18_Terminates ==
    /\ <>[](/\ cpc = "done"
            /\ outcome # "none"
            /\ Planned => \A i \in Threads : wpc[i] \in Dead)
    /\ [][outcome # "none" => outcome' = outcome]_vars

\* C18 witness: a thread used up its two attempts, each with a failed
\* request, and the run ended Failed.
C18_Witness ==
    /\ Planned
    /\ cpc = "done"
    /\ outcome = "Failed"
    /\ retries = 2
    /\ \E i \in Threads : wpc[i] = "failed" /\ requests[i] = 2

\* C19: in single mode the download keeps the contract of a segment worker
\* over the whole resource: with the total size known and a '.part' file
\* that already holds that many bytes no request is sent, and the run is
\* reported as failed only after `retries` requests.
C19_SingleFollowsContract ==
    (~Planned /\ cpc \notin {"probe", "single"}) =>
        /\ (total_size > 0 /\ Len(single_init) >= total_size) => main_requests = 0
        /\ outcome = "Failed" => main_requests >= retries

\* The destination begins with the contents of parts 0..i.
CopiedUpTo(i) ==
    LET head == ConcatUpTo(merge_input, i + 1)
    IN  /\ Len(dest) >= Len(head)
        /\ SubSeq(dest, 1, Len(head)) = head

\* C20: from the start of the merge on, a part file the merge has gone past
\* is gone; a part file is gone only when the merge has gone past it and the
\* destination holds its contents; a part file the merge has not reached is
\* as the merge found it; and once the merge is over no part file is left.
C20_PartsRemovedAfterCopy ==
    (Planned /\ dest_opened) =>
        \A i \in Threads :
            /\ i < mi => ~part_exists[i]
            /\ (merge_found[i] /\ ~part_exists[i]) => (i < mi /\ CopiedUpTo(i))
            /\ (merge_found[i] /\ i >= mi) =>
                  (part_exists[i] /\ part[i] = merge_input[i])
            /\ (cpc = "verify" \/ outcome \in Success) => ~part_exists[i]

\* C20 witness: a merged run that found both part files of two threads and
\* left none.
C20_Witness ==
    /\ Planned
    /\ outcome \in Success
    /\ num_threads = 2
    /\ \A i \in Threads : merge_found[i] /\ merge_input[i] # <<>> /\ ~part_exists[i]

====
